---- MODULE Spec2Model ----
(***************************************************************************)
(* Model of etl_benchmark.py: a benchmark driver that provisions a CSV     *)
(* dataset, runs a pandas (eager) and a dask (partitioned) filter +        *)
(* group-by-mean pipeline over it, samples time and memory around each,    *)
(* and prints a two-row comparison table.                                  *)
(*                                                                         *)
(* Numbers: `value` is modelled by integers, a mean by the reduced         *)
(* fraction <<numerator, denominator>>.  Clock readings are integers in    *)
(* milliseconds; an elapsed time is kept in hundredths of a second, as     *)
(* round(end - start, 2) leaves it.                                        *)
(***************************************************************************)
EXTENDS Integers, Sequences, FiniteSets, TLC

\* ------------------------------------------------------------------ bounds
\* largest --rows value tried by a run of main
MaxRows == 1
\* largest `value` a generated or hand-made row carries
MaxValue == 2
\* largest reading of time.time(), in milliseconds
MaxClock == 10
\* largest resident-memory sample, in MB
MaxRss == 2
\* longest dataset handed to the two pipelines in SpecPipelines
MaxLen == 3
\* most partitions dask cuts a dataset into
MaxParts == 3

\* ------------------------------------------------------- program constants
Categories == {"A", "B", "C", "D"}
Columns == <<"user_id", "category", "value", "timestamp">>
UserIds == {1}
Values == (-1)..MaxValue

NoFile == [exists |-> FALSE]
NoResult == [none |-> TRUE]

\* args.data_path values: a bare file name and the default nested path,
\* each as its sequence of path components
Paths == {<<"data.csv">>, <<"data", "large_dataset.csv">>}

VARIABLES
    pc,            \* position of main: the step that was last completed
    data_path,     \* args.data_path
    rows,          \* args.rows
    dirs,          \* directories that exist below the working directory
    file,          \* what is stored at data_path: NoFile or the CSV text
    pandas_result, pandas_time, pandas_mem,
    dask_result, dask_time, dask_mem,
    out,           \* what main printed on standard output
    log,           \* the messages main logged
    error,         \* the exception that ended the run, or "none"
    file0,         \* history: content of data_path when the run started
    generated,     \* history: generate_dataset was called in this run
    complete,      \* history: file is the output of a to_csv that returned
    trace          \* history: the steps this run has finished, in order

vars == <<pc, data_path, rows, dirs, file, pandas_result, pandas_time,
          pandas_mem, dask_result, dask_time, dask_mem, out, log, error,
          file0, generated, complete, trace>>

\* ----------------------------------------------------------------- helpers
RECURSIVE GCD(_, _)
GCD(a, b) == IF b = 0 THEN a ELSE GCD(b, a % b)

\* Series.mean() of a group: total / count, as a reduced fraction
Mean(total, count) ==
    LET g == GCD(total, count) IN <<total \div g, count \div g>>

RECURSIVE SumValues(_)
SumValues(df) ==
    IF df = <<>> THEN 0 ELSE Head(df).value + SumValues(Tail(df))

RECURSIVE SelectRows(_, _)
SelectRows(df, c) ==
    IF df = <<>> THEN <<>>
    ELSE IF Head(df).category = c
         THEN <<Head(df)>> \o SelectRows(Tail(df), c)
         ELSE SelectRows(Tail(df), c)

GroupKeys(df) == {df[i].category : i \in DOMAIN df}

\* os.path.dirname(path)
dirname(path) == SubSeq(path, 1, Len(path) - 1)

\* the directories os.makedirs(d) creates or finds: d and its ancestors
Ancestors(d) == {SubSeq(d, 1, k) : k \in 1..Len(d)}

\* pd.date_range("2023-01-01", periods=n, freq="s")[i], as seconds after
\* the start instant
Timestamp(i) == i - 1

\* the frames of n rows over a set of category labels
FramesOver(n, cats) ==
    {[i \in 1..n |-> [user_id |-> g[i][1], category |-> g[i][2],
                      value |-> g[i][3], timestamp |-> Timestamp(i)]] :
        g \in [1..n -> UserIds \X cats \X Values]}

\* the frames generate_dataset can build for a row count n
Frames(n) == FramesOver(n, Categories)

\* df.to_csv(path, index=False): the text written, as a header line and
\* one line of fields per row, in column order
CsvLine(r) == <<r.user_id, r.category, r.value, r.timestamp>>

\* to_csv with the row index written as a first, unnamed column
to_csv_WithIndex(df) ==
    [exists |-> TRUE, header |-> << <<"">> \o Columns >>,
     lines |-> [i \in DOMAIN df |-> <<i - 1>> \o CsvLine(df[i])]]

to_csv(df) ==
    [exists |-> TRUE, header |-> <<Columns>>,
     lines |-> [i \in DOMAIN df |-> CsvLine(df[i])]]

\* the number of text lines of a file
LineCount(f) == Len(f.header) + Len(f.lines)

\* what a to_csv that fails after k lines leaves behind
Truncated(f, k) ==
    [exists |-> TRUE,
     header |-> IF k >= 1 THEN f.header ELSE <<>>,
     lines |-> IF k >= 1 THEN SubSeq(f.lines, 1, k - 1) ELSE <<>>]

\* position of a column name in the header line
ColumnIndex(h, name) == CHOOSE j \in DOMAIN h : h[j] = name

\* pd.read_csv(path): fields are found by the header's column names
read_csv(f) ==
    LET h == f.header[1] IN
    [i \in DOMAIN f.lines |->
        [user_id |-> f.lines[i][ColumnIndex(h, "user_id")],
         category |-> f.lines[i][ColumnIndex(h, "category")],
         value |-> f.lines[i][ColumnIndex(h, "value")],
         timestamp |-> f.lines[i][ColumnIndex(h, "timestamp")]]]

\* read_csv raises EmptyDataError on a file without a header line
Readable(f) == f.exists /\ Len(f.header) = 1

\* the filter with >= in place of >
RECURSIVE FilterPositive_NonNegative(_)
FilterPositive_NonNegative(df) ==
    IF df = <<>> THEN <<>>
    ELSE IF Head(df).value >= 0
         THEN <<Head(df)>> \o FilterPositive_NonNegative(Tail(df))
         ELSE FilterPositive_NonNegative(Tail(df))

\* df[df["value"] > 0]
RECURSIVE FilterPositive(_)
FilterPositive(df) ==
    IF df = <<>> THEN <<>>
    ELSE IF Head(df).value > 0
         THEN <<Head(df)>> \o FilterPositive(Tail(df))
         ELSE FilterPositive(Tail(df))

\* df.groupby("category")["value"].mean()
GroupMean(df) ==
    [c \in GroupKeys(df) |->
        Mean(SumValues(SelectRows(df, c)), Len(SelectRows(df, c)))]

pandas_pipeline(f) == GroupMean(FilterPositive(read_csv(f)))

\* dd.read_csv(path, blocksize=...): the file's rows are cut into consecutive
\* partitions at line boundaries.  Where the cuts fall depends on blocksize
\* and on the byte length of each line, so that every cut is possible; a
\* partition may be empty.  b[i] is the index of the last row of partition i.
RECURSIVE SplitsOfLen(_, _, _)
SplitsOfLen(k, lo, n) ==
    IF k = 1 THEN {<<n>>}
    ELSE UNION {{<<x>> \o s : s \in SplitsOfLen(k - 1, x, n)} : x \in lo..n}

Splits(n) == UNION {SplitsOfLen(k, 0, n) : k \in 1..MaxParts}

Partition(df, b, i) ==
    SubSeq(df, (IF i = 1 THEN 0 ELSE b[i - 1]) + 1, b[i])

\* per-partition step of the dask group-by-mean: sum and count per key
Chunk(df) ==
    [c \in GroupKeys(df) |->
        [sum |-> SumValues(SelectRows(df, c)),
         count |-> Len(SelectRows(df, c))]]

\* a combination in which a later partition's entry replaces an earlier one
Combine_Overwrite(x, y) ==
    [c \in (DOMAIN x) \cup (DOMAIN y) |->
        IF c \in DOMAIN y THEN y[c] ELSE x[c]]

\* combining two partial results: keys united, sums and counts added
Combine(x, y) ==
    [c \in (DOMAIN x) \cup (DOMAIN y) |->
        [sum |-> (IF c \in DOMAIN x THEN x[c].sum ELSE 0)
                 + (IF c \in DOMAIN y THEN y[c].sum ELSE 0),
         count |-> (IF c \in DOMAIN x THEN x[c].count ELSE 0)
                   + (IF c \in DOMAIN y THEN y[c].count ELSE 0)]]

RECURSIVE Aggregate(_, _, _)
Aggregate(df, b, i) ==
    IF i = 0 THEN << >>
    ELSE Combine(Aggregate(df, b, i - 1),
                 Chunk(FilterPositive(Partition(df, b, i))))

\* .mean().compute(): total sum over total count per key
Finalize(agg) == [c \in DOMAIN agg |-> Mean(agg[c].sum, agg[c].count)]

dask_pipeline(f, b) == Finalize(Aggregate(read_csv(f), b, Len(b)))

\* round(end - start, 2), from milliseconds to hundredths of a second.  The
\* readings are floats: a difference that falls halfway in milliseconds
\* stands for real differences on either side, so both neighbours are
\* possible results.  round() of a small negative difference is -0.0.
Round2(d) ==
    LET lo == d \div 10
        r == d % 10
    IN IF r < 5 THEN {lo} ELSE IF r > 5 THEN {lo + 1} ELSE {lo, lo + 1}

\* time.time(): the wall clock, which the system may set forward or back
\* between two readings
ClockReadings == 0..MaxClock

\* timed(func) for a func that returns: the elapsed times it can report
timed == {t \in (-(MaxClock \div 10) - 1)..((MaxClock \div 10) + 1) :
            \E start, end \in ClockReadings : t \in Round2(end - start)}

\* round(memory_usage_mb(), 2): the resident set size is an input
memory_usage_mb == 1..MaxRss

\* the table with the measurements of the two runs exchanged
ResultsTable_Swapped(pt, pm, dt, dm) ==
    << [Framework |-> "Pandas", Time |-> dt, Memory |-> dm],
       [Framework |-> "Dask", Time |-> pt, Memory |-> pm] >>

\* results = pd.DataFrame({...}) of main
ResultsTable(pt, pm, dt, dm) ==
    << [Framework |-> "Pandas", Time |-> pt, Memory |-> pm],
       [Framework |-> "Dask", Time |-> dt, Memory |-> dm] >>

Fail(e) ==
    /\ pc' = "failed"
    /\ error' = e

\* ----------------------------------------------------------------- actions
Init ==
    /\ pc = "start"
    /\ data_path \in Paths
    /\ rows \in 0..MaxRows
    /\ dirs \in {{}, Ancestors(dirname(data_path))}
    /\ file = NoFile
    /\ pandas_result = NoResult /\ pandas_time = 0 /\ pandas_mem = 0
    /\ dask_result = NoResult /\ dask_time = 0 /\ dask_mem = 0
    /\ out = <<>>
    /\ log = <<>>
    /\ error = "none"
    /\ file0 = NoFile
    /\ generated = FALSE
    /\ complete = FALSE
    /\ trace = <<>>

\* a provisioning step that generates although the file exists
ProvisionSkip_Regenerate ==
    /\ pc = "start"
    /\ file.exists
    /\ generated' = TRUE
    /\ \E df \in Frames(rows) : file' = to_csv(df)
    /\ complete' = TRUE
    /\ pc' = "provisioned"
    /\ trace' = Append(trace, "provision")
    /\ log' = log \o <<"Starting ETL benchmark", "Dataset path">>
    /\ UNCHANGED <<data_path, rows, dirs, pandas_result, pandas_time,
                   pandas_mem, dask_result, dask_time, dask_mem, out, error,
                   file0>>

\* main, lines 72-77, when os.path.exists(args.data_path)
ProvisionSkip ==
    /\ pc = "start"
    /\ file.exists
    /\ pc' = "provisioned"
    /\ trace' = Append(trace, "provision")
    /\ log' = log \o <<"Starting ETL benchmark", "Dataset path">>
    /\ UNCHANGED <<data_path, rows, dirs, file, pandas_result, pandas_time,
                   pandas_mem, dask_result, dask_time, dask_mem, out, error,
                   file0, generated, complete>>

\* generate_dataset(path, rows) with an empty dirname: os.makedirs("")
\* raises FileNotFoundError
GenerateNoDirname ==
    /\ pc = "start"
    /\ ~file.exists
    /\ dirname(data_path) = <<>>
    /\ generated' = TRUE
    /\ log' = Append(log, "Dataset not found. Auto-generating dataset...")
    /\ Fail("FileNotFoundError")
    /\ UNCHANGED <<data_path, rows, dirs, file, pandas_result, pandas_time,
                   pandas_mem, dask_result, dask_time, dask_mem, out,
                   file0, complete, trace>>

\* generate_dataset: os.makedirs is refused by the file system
GenerateMkdirError ==
    /\ pc = "start"
    /\ ~file.exists
    /\ dirname(data_path) # <<>>
    /\ ~(Ancestors(dirname(data_path)) \subseteq dirs)
    /\ generated' = TRUE
    /\ log' = Append(log, "Dataset not found. Auto-generating dataset...")
    /\ Fail("PermissionError")
    /\ UNCHANGED <<data_path, rows, dirs, file, pandas_result, pandas_time,
                   pandas_mem, dask_result, dask_time, dask_mem, out,
                   file0, complete, trace>>

\* generate_dataset returns: directories made, frame built, file written
GenerateOk ==
    /\ pc = "start"
    /\ ~file.exists
    /\ dirname(data_path) # <<>>
    /\ generated' = TRUE
    /\ dirs' = dirs \cup Ancestors(dirname(data_path))
    /\ \E df \in Frames(rows) : file' = to_csv(df)
    /\ complete' = TRUE
    /\ pc' = "provisioned"
    /\ trace' = Append(trace, "provision")
    /\ log' = log \o <<"Dataset not found. Auto-generating dataset...",
                       "Generating CSV dataset", "Dataset generated",
                       "Starting ETL benchmark", "Dataset path">>
    /\ UNCHANGED <<data_path, rows, pandas_result, pandas_time, pandas_mem,
                   dask_result, dask_time, dask_mem, out, error, file0>>

\* generate_dataset: to_csv raises, either on opening the file (nothing is
\* created) or after writing k whole lines (disk full).  A line cut in the
\* middle is not modelled.
GenerateWriteError ==
    /\ pc = "start"
    /\ ~file.exists
    /\ dirname(data_path) # <<>>
    /\ generated' = TRUE
    /\ dirs' = dirs \cup Ancestors(dirname(data_path))
    /\ \/ file' = NoFile
       \/ \E df \in Frames(rows) : \E k \in 0..rows :
             file' = Truncated(to_csv(df), k)
    /\ complete' = FALSE
    /\ log' = log \o <<"Dataset not found. Auto-generating dataset...",
                       "Generating CSV dataset">>
    /\ Fail("OSError")
    /\ UNCHANGED <<data_path, rows, pandas_result, pandas_time, pandas_mem,
                   dask_result, dask_time, dask_mem, out, file0, trace>>

\* main, lines 80-83: timed(lambda: pandas_pipeline(args.data_path))
RunPandas ==
    /\ pc = "provisioned"
    /\ Readable(file)
    /\ pandas_result' = pandas_pipeline(file)
    /\ pandas_time' \in timed
    /\ pc' = "pandas_done"
    /\ trace' = Append(trace, "pandas")
    /\ log' = Append(log, "Running Pandas pipeline...")
    /\ UNCHANGED <<data_path, rows, dirs, file, pandas_mem, dask_result,
                   dask_time, dask_mem, out, error, file0, generated,
                   complete>>

\* a pandas failure that is caught and logged, after which main goes on
RunPandasError_Caught ==
    /\ pc = "provisioned"
    /\ log' = Append(log, "Running Pandas pipeline...")
    /\ error' = IF Readable(file) THEN "MemoryError" ELSE "EmptyDataError"
    /\ pc' = "pandas_done"
    /\ UNCHANGED <<data_path, rows, dirs, file, pandas_result, pandas_time,
                   pandas_mem, dask_result, dask_time, dask_mem, out,
                   file0, generated, complete, trace>>

\* the pandas run raises: read_csv finds no header (EmptyDataError), or the
\* library fails while loading (MemoryError)
RunPandasError ==
    /\ pc = "provisioned"
    /\ log' = Append(log, "Running Pandas pipeline...")
    /\ \/ ~Readable(file) /\ Fail("EmptyDataError")
       \/ Readable(file) /\ Fail("MemoryError")
    /\ UNCHANGED <<data_path, rows, dirs, file, pandas_result, pandas_time,
                   pandas_mem, dask_result, dask_time, dask_mem, out,
                   file0, generated, complete, trace>>

\* main, line 84
SamplePandasMem ==
    /\ pc = "pandas_done"
    /\ pandas_mem' \in memory_usage_mb
    /\ pc' = "pandas_sampled"
    /\ trace' = Append(trace, "pandas_mem")
    /\ UNCHANGED <<data_path, rows, dirs, file, pandas_result, pandas_time,
                   dask_result, dask_time, dask_mem, out, log, error, file0,
                   generated, complete>>

\* main, lines 87-90: timed(lambda: dask_pipeline(args.data_path, blocksize))
RunDask ==
    /\ pc = "pandas_sampled"
    /\ \E b \in Splits(Len(file.lines)) :
          dask_result' = dask_pipeline(file, b)
    /\ dask_time' \in timed
    /\ pc' = "dask_done"
    /\ trace' = Append(trace, "dask")
    /\ log' = Append(log, "Running Dask pipeline...")
    /\ UNCHANGED <<data_path, rows, dirs, file, pandas_result, pandas_time,
                   pandas_mem, dask_mem, out, error, file0, generated,
                   complete>>

\* the dask run raises while computing
RunDaskError ==
    /\ pc = "pandas_sampled"
    /\ log' = Append(log, "Running Dask pipeline...")
    /\ Fail("MemoryError")
    /\ UNCHANGED <<data_path, rows, dirs, file, pandas_result, pandas_time,
                   pandas_mem, dask_result, dask_time, dask_mem, out,
                   file0, generated, complete, trace>>

\* a dask memory sample reported as the growth since the pandas sample
SampleDaskMem_Delta ==
    /\ pc = "dask_done"
    /\ \E m \in memory_usage_mb : dask_mem' = m - pandas_mem
    /\ pc' = "dask_sampled"
    /\ trace' = Append(trace, "dask_mem")
    /\ UNCHANGED <<data_path, rows, dirs, file, pandas_result, pandas_time,
                   pandas_mem, dask_result, dask_time, out, log, error,
                   file0, generated, complete>>

\* main, line 91
SampleDaskMem ==
    /\ pc = "dask_done"
    /\ dask_mem' \in memory_usage_mb
    /\ pc' = "dask_sampled"
    /\ trace' = Append(trace, "dask_mem")
    /\ UNCHANGED <<data_path, rows, dirs, file, pandas_result, pandas_time,
                   pandas_mem, dask_result, dask_time, out, log, error,
                   file0, generated, complete>>

\* main, lines 94-106
Report ==
    /\ pc = "dask_sampled"
    /\ out' = << "=== Performance Comparison ===",
                 ResultsTable(pandas_time, pandas_mem, dask_time, dask_mem),
                 "=== Aggregation Output (Sample) ===",
                 dask_result >>
    /\ log' = Append(log, "Benchmark completed successfully")
    /\ pc' = "done"
    /\ trace' = Append(trace, "report")
    /\ UNCHANGED <<data_path, rows, dirs, file, pandas_result, pandas_time,
                   pandas_mem, dask_result, dask_time, dask_mem, error,
                   file0, generated, complete>>

\* the script is invoked again on the same --data-path, with any --rows
NextRun ==
    /\ pc \in {"done", "failed"}
    /\ pc' = "start"
    /\ rows' \in 0..MaxRows
    /\ pandas_result' = NoResult /\ pandas_time' = 0 /\ pandas_mem' = 0
    /\ dask_result' = NoResult /\ dask_time' = 0 /\ dask_mem' = 0
    /\ out' = <<>>
    /\ log' = <<>>
    /\ error' = "none"
    /\ file0' = file
    /\ generated' = FALSE
    /\ trace' = <<>>
    /\ UNCHANGED <<data_path, dirs, file, complete>>

Next ==
    \/ ProvisionSkip
    \/ GenerateNoDirname
    \/ GenerateMkdirError
    \/ GenerateOk
    \/ GenerateWriteError
    \/ RunPandas
    \/ RunPandasError
    \/ SamplePandasMem
    \/ RunDask
    \/ RunDaskError
    \/ SampleDaskMem
    \/ Report
    \/ NextRun

Spec == Init /\ [][Next]_vars

\* ------------------------------------------------ the pipelines on their own
\* the category labels of the datasets handed to the pipelines
PipeCategories == {"A", "B"}

\* every dataset of up to MaxLen rows, as the CSV file that holds it
PipeInit ==
    /\ pc = "pipe_start"
    /\ data_path = <<"data", "large_dataset.csv">>
    /\ dirs = Ancestors(dirname(data_path))
    /\ \E n \in 0..MaxLen : \E df \in FramesOver(n, PipeCategories) :
          file = to_csv(df)
    /\ rows = Len(file.lines)
    /\ pandas_result = NoResult /\ pandas_time = 0 /\ pandas_mem = 0
    /\ dask_result = NoResult /\ dask_time = 0 /\ dask_mem = 0
    /\ out = <<>>
    /\ log = <<>>
    /\ error = "none"
    /\ file0 = file
    /\ generated = FALSE
    /\ complete = TRUE
    /\ trace = <<>>

\* pandas_pipeline(path) applied to the dataset
ApplyPandas ==
    /\ pc = "pipe_start"
    /\ pandas_result' = pandas_pipeline(file)
    /\ pc' = "pipe_pandas"
    /\ UNCHANGED <<data_path, rows, dirs, file, pandas_time, pandas_mem,
                   dask_result, dask_time, dask_mem, out, log, error,
                   file0, generated, complete, trace>>

\* dask_pipeline(path, blocksize) applied to the same dataset, for every
\* way the blocksize can cut it
ApplyDask ==
    /\ pc = "pipe_pandas"
    /\ \E b \in Splits(Len(file.lines)) :
          dask_result' = dask_pipeline(file, b)
    /\ pc' = "pipe_both"
    /\ UNCHANGED <<data_path, rows, dirs, file, pandas_result, pandas_time,
                   pandas_mem, dask_time, dask_mem, out, log, error,
                   file0, generated, complete, trace>>

PipeNext == ApplyPandas \/ ApplyDask

SpecPipelines == PipeInit /\ [][PipeNext]_vars

\* ------------------------------------------------------------------ claims
Range(q) == {q[i] : i \in DOMAIN q}

InMain == pc \in {"start", "provisioned", "pandas_done", "pandas_sampled",
                  "dask_done", "dask_sampled", "done", "failed"}

StepOrder == <<"provision", "pandas", "pandas_mem", "dask", "dask_mem",
               "report">>

\* C1: a run that starts with a file at data_path never calls
\* generate_dataset, and at every later point of the run the file's content
\* is what it was at the start, whatever --rows is.
C1_IdempotentProvisioning ==
    (InMain /\ file0.exists) => (~generated /\ file = file0)

C1_Witness ==
    /\ pc = "done"
    /\ file0.exists
    /\ rows # Len(file.lines)

\* C2: when generation completes in a run that found no file, the file is
\* one header line user_id,category,value,timestamp followed by exactly
\* args.rows data lines, rows + 1 lines in all, with no index column.
C2_GeneratedFileShape ==
    (InMain /\ generated /\ trace # <<>>) =>
        /\ file.exists
        /\ file.header = <<Columns>>
        /\ Len(file.lines) = rows
        /\ LineCount(file) = rows + 1
        /\ \A i \in DOMAIN file.lines : Len(file.lines[i]) = Len(Columns)

C2_Witness ==
    /\ pc = "done"
    /\ generated
    /\ rows = MaxRows
    /\ LineCount(file) = MaxRows + 1

\* C3: for every dataset and every cut of its rows into consecutive
\* partitions, dask_pipeline returns the mapping pandas_pipeline returns:
\* the same keys and, per key, the same mean.
C3_PipelinesAgree ==
    pc = "pipe_both" => dask_result = pandas_result

C3_Witness ==
    /\ pc = "pipe_both"
    /\ Len(file.lines) = MaxLen
    /\ \E c \in DOMAIN dask_result : dask_result[c][2] > 1

\* the data lines of the file that carry category c and a value > 0
PositiveLines(c) ==
    {i \in DOMAIN file.lines : file.lines[i][2] = c /\ file.lines[i][3] > 0}

RECURSIVE SumOfLines(_)
SumOfLines(S) ==
    IF S = {} THEN 0
    ELSE LET i == CHOOSE j \in S : TRUE
         IN file.lines[i][3] + SumOfLines(S \ {i})

\* C4: the keys of pandas_pipeline's mapping are exactly the categories with
\* at least one row of value > 0, and each key maps to the mean of value over
\* exactly those rows; rows with value <= 0 never contribute, a category
\* with no positive row is absent, an empty dataset gives an empty mapping.
C4_PandasMeanOfPositives ==
    pc \in {"pipe_pandas", "pipe_both"} =>
        /\ DOMAIN pandas_result =
              {c \in PipeCategories : PositiveLines(c) # {}}
        /\ \A c \in DOMAIN pandas_result :
              /\ pandas_result[c][2] > 0
              /\ pandas_result[c][1] * Cardinality(PositiveLines(c))
                    = pandas_result[c][2] * SumOfLines(PositiveLines(c))

C4_Witness ==
    /\ pc = "pipe_pandas"
    /\ DOMAIN pandas_result = {"A"}
    /\ pandas_result["A"][2] = 2
    /\ \E i \in DOMAIN file.lines :
          file.lines[i][2] = "B" /\ file.lines[i][3] = 0

\* C5: a run that reaches the report prints a table of exactly two rows, the
\* first labelled Pandas with the time and memory measured around the pandas
\* run, the second labelled Dask with those measured around the dask run,
\* and then prints the dask pipeline's result; the measurements of one run
\* are taken at that run's step only.
C5_TableRows ==
    pc = "done" =>
        /\ Len(out) = 4
        /\ Len(out[2]) = 2
        /\ out[2][1] = [Framework |-> "Pandas", Time |-> pandas_time,
                        Memory |-> pandas_mem]
        /\ out[2][2] = [Framework |-> "Dask", Time |-> dask_time,
                        Memory |-> dask_mem]
        /\ out[4] = dask_result

C5_MeasuredAtOwnStep ==
    /\ (pandas_time' # pandas_time) => (pc' \in {"pandas_done", "start"})
    /\ (pandas_mem' # pandas_mem) => (pc' \in {"pandas_sampled", "start"})
    /\ (dask_time' # dask_time) => (pc' \in {"dask_done", "start"})
    /\ (dask_mem' # dask_mem) => (pc' \in {"dask_sampled", "start"})

C5_ReportRows == [](C5_TableRows) /\ [][C5_MeasuredAtOwnStep]_vars

C5_Witness ==
    /\ pc = "done"
    /\ pandas_time # dask_time
    /\ pandas_mem # dask_mem

\* C6: the elapsed time reported for each runner is non-negative in every
\* run, whatever happens to the system clock while the runner executes.
C6_ElapsedNonNegative ==
    InMain => (pandas_time >= 0 /\ dask_time >= 0)

\* C7: the steps of a run happen at most once each and in the order
\* provision, pandas, pandas memory sample, dask, dask memory sample, report;
\* a run that ends normally has done each exactly once; each memory sample
\* is an absolute reading of the process, not a difference.
C7_StrictSequence ==
    InMain =>
        /\ Len(trace) <= Len(StepOrder)
        /\ trace = SubSeq(StepOrder, 1, Len(trace))
        /\ pc = "done" => trace = StepOrder
        /\ "pandas_mem" \in Range(trace) => pandas_mem \in memory_usage_mb
        /\ "dask_mem" \in Range(trace) => dask_mem \in memory_usage_mb
        /\ "dask" \in Range(trace) => "pandas_mem" \in Range(trace)

C7_Witness ==
    /\ pc = "done"
    /\ trace = StepOrder
    /\ dask_mem = pandas_mem

\* C8: a failure in generation, the pandas run or the dask run ends the
\* run: no later step runs, nothing is printed, "Benchmark completed
\* successfully" is not logged, nothing is retried; after a failed pandas
\* run the dask run never starts.
C8_FailedState ==
    (InMain /\ error # "none") =>
        /\ pc = "failed"
        /\ out = <<>>
        /\ "Benchmark completed successfully" \notin Range(log)
        /\ "report" \notin Range(trace)
        /\ "pandas" \notin Range(trace) =>
              /\ dask_result = NoResult
              /\ "Running Dask pipeline..." \notin Range(log)

C8_NoStepAfterFailure ==
    pc = "failed" => (pc' = "start" /\ trace' = <<>> /\ error' = "none")

C8_FailurePropagates == [](C8_FailedState) /\ [][C8_NoStepAfterFailure]_vars

C8_Witness ==
    /\ pc = "failed"
    /\ error = "MemoryError"
    /\ trace = <<"provision">>

\* C9: when no file exists at the target path and no file-system error
\* (disk full, permission denied) occurs, the provisioning step ends with a
\* dataset file at that path, also for a bare file name.
C9_ProvisionCreatesFile ==
    (InMain /\ pc # "start" /\ ~file0.exists
        /\ error \notin {"PermissionError", "OSError"}) => file.exists

\* C10: whenever a run passes the existence check and goes on to the
\* pipelines without generating, the file is the complete output of one
\* finished generation.
C10_NoPartialDatasetAccepted ==
    (InMain /\ ~generated /\ trace # <<>>) => complete

====
